---- MODULE Spec2Model ----
(***************************************************************************)
(* A model of the Stripe tool server of this repository: the tool handler  *)
(* handleToolCall with its client initialisation, argument validation,     *)
(* provider call raced against a deadline timer, and error classification, *)
(* in its two versions: src/src/stripe/index.ts (zod schemas, "zod") and   *)
(* src/unnamed/part_000 (hand-written checks, "manual").                   *)
(*                                                                         *)
(* Spec models the handlers of a process whose module has been evaluated;  *)
(* SpecModule starts one step earlier, at the evaluation of the module's   *)
(* top-level statements.                                                   *)
(***************************************************************************)
EXTENDS Integers, Sequences, FiniteSets, TLC

(***************************************************************************)
(* JavaScript values.  A number is a reduced fraction num/den; a string    *)
(* carries its text; undefined also stands for a key that is absent.       *)
(***************************************************************************)
Undef == [t |-> "undefined"]
NaN == [t |-> "NaN"]
Str(s) == [t |-> "string", s |-> s]
Num(n, d) == [t |-> "number", num |-> n, den |-> d]
IntNum(n) == Num(n, 1)
Arr(a) == [t |-> "array", a |-> a]

RECURSIVE GCD(_, _)
GCD(a, b) == IF b = 0 THEN a ELSE GCD(b, a % b)

Abs(n) == IF n < 0 THEN -n ELSE n

\* n/d as a reduced fraction (d > 0).
Frac(n, d) ==
    LET g == GCD(Abs(n), d)
    IN  Num(n \div g, d \div g)

\* ToBoolean.
Truthy(v) ==
    CASE v.t = "undefined" -> FALSE
      [] v.t = "NaN" -> FALSE
      [] v.t = "string" -> v.s # ""
      [] v.t = "number" -> v.num # 0
      [] OTHER -> TRUE

\* a || b
OrElse(a, b) == IF Truthy(a) THEN a ELSE b

\* ToNumber of the operands the handlers multiply and add.
ToNumber(v) == IF v.t = "number" THEN v ELSE NaN

\* a * b and a + b on numbers with integer values.
Mul(a, b) ==
    LET x == ToNumber(a)
        y == ToNumber(b)
    IN  IF x.t = "NaN" \/ y.t = "NaN" THEN NaN ELSE Frac(x.num * y.num, x.den * y.den)

Add(a, b) ==
    LET x == ToNumber(a)
        y == ToNumber(b)
    IN  IF x.t = "NaN" \/ y.t = "NaN" THEN NaN
        ELSE Frac(x.num * y.den + y.num * x.den, x.den * y.den)

\* a / k for a positive integer k.
DivBy(a, k) ==
    IF a.t = "NaN" THEN NaN ELSE Frac(a.num, a.den * k)

\* String(v) of the values the handlers interpolate into messages.
JsString(v) ==
    CASE v.t = "undefined" -> "undefined"
      [] v.t = "string" -> v.s
      [] v.t = "NaN" -> "NaN"
      [] OTHER -> "[object Object]"

(***************************************************************************)
(* Date strings.  new Date(s).getTime() in milliseconds; a string that is  *)
(* no date gives NaN.  The instants lie around the epoch.                  *)
(***************************************************************************)
DateStrings ==
    { "1969-12-31T23:59:59.000Z", "1970-01-01T00:00:00.000Z",
      "1970-01-01T00:00:01.000Z", "1970-01-01T00:00:01.900Z",
      "1970-01-01T00:00:02.000Z" }

DateMs(s) ==
    CASE s = "1969-12-31T23:59:59.000Z" -> -1000
      [] s = "1970-01-01T00:00:00.000Z" -> 0
      [] s = "1970-01-01T00:00:01.000Z" -> 1000
      [] s = "1970-01-01T00:00:01.900Z" -> 1900
      [] s = "1970-01-01T00:00:02.000Z" -> 2000

\* new Date(v).getTime() for a string v.
GetTime(v) == IF v.t = "string" /\ v.s \in DateStrings THEN IntNum(DateMs(v.s)) ELSE NaN

\* Math.floor(ms / 1000)
FloorSeconds(ms) == IntNum(ms.num \div 1000)

(***************************************************************************)
(* Tool names and argument mappings.                                       *)
(***************************************************************************)
ArgKeys ==
    { "limit", "starting_after", "ending_before", "email", "customer",
      "from_date", "to_date", "other" }

NoArgs == [k \in ArgKeys |-> Undef]

With(args, k, v) == [args EXCEPT ![k] = v]

\* The catalog TOOLS, in its order.
TOOLS ==
    << "stripe_list_transactions", "stripe_get_balance", "stripe_list_customers",
       "stripe_payment_methods", "stripe_invoice_history",
       "stripe_subscription_metrics" >>

ToolNames == {TOOLS[i] : i \in 1..Len(TOOLS)}

(***************************************************************************)
(* The zod schemas of index.ts.  A field is a base type and the chain of   *)
(* builder methods applied to it, in the order written.                    *)
(***************************************************************************)
Field(f, base, chain) == [field |-> f, base |-> base, chain |-> chain]

ListTransactionsSchema ==
    { Field("limit", "number", <<"int", "positive", "optional">>),
      Field("starting_after", "string", <<"optional">>),
      Field("ending_before", "string", <<"optional">>) }

ListCustomersSchema ==
    { Field("limit", "number", <<"max", "optional">>),
      Field("starting_after", "string", <<"optional">>),
      Field("ending_before", "string", <<"optional">>),
      Field("email", "string", <<"optional">>) }

GetBalanceSchema == {}

GetPaymentMethodsSchema == { Field("customer", "string", <<>>) }

GetInvoiceHistorySchema ==
    { Field("customer", "string", <<>>),
      Field("limit", "number", <<"optional", "max">>),
      Field("starting_after", "string", <<"optional">>),
      Field("ending_before", "string", <<"optional">>) }

SubscriptionMetricsFields ==
    { Field("from_date", "string", <<"datetime", "optional">>),
      Field("to_date", "string", <<"datetime", "optional">>) }

\* The argument of .max(...) in the two limit chains.
MaxLimit == 100

ChainHas(chain, m) == \E i \in 1..Len(chain) : chain[i] = m

\* One check of a chain on a value of the base type.
CheckHolds(m, v) ==
    CASE m = "int" -> v.den = 1
      [] m = "positive" -> v.num > 0
      [] m = "max" -> v.num <= MaxLimit * v.den
      [] m = "datetime" -> v.s \in DateStrings
      [] OTHER -> TRUE

\* Whether value v has the field's base type (z.number() refuses NaN).
TypeHolds(fd, v) == v.t = fd.base

\* Whether field fd accepts value v.
Accepts(fd, v) ==
    IF v = Undef THEN ChainHas(fd.chain, "optional")
    ELSE /\ TypeHolds(fd, v)
         /\ \A i \in 1..Len(fd.chain) : CheckHolds(fd.chain[i], v)

\* The fields of a schema that raise an issue on args.
FieldIssues(schema, args) == {fd.field : fd \in {x \in schema : ~Accepts(x, args[x.field])}}

\* A field whose value has the wrong type aborts the object's parse, so a
\* refinement on the object does not run.
Aborted(schema, args) ==
    \E fd \in schema : args[fd.field] # Undef /\ ~TypeHolds(fd, args[fd.field])

\* a < b on two Date objects.
DateLess(a, b) ==
    LET x == GetTime(a)
        y == GetTime(b)
    IN  x.t = "number" /\ y.t = "number" /\ x.num < y.num

\* The .refine predicate of SubscriptionMetricsSchema.
DateOrderHolds(data) ==
    IF Truthy(data.from_date) /\ Truthy(data.to_date)
    THEN DateLess(data.from_date, data.to_date)
    ELSE TRUE

\* z.object strips the keys the schema does not name.
Strip(schema, args) ==
    [k \in ArgKeys |-> IF \E fd \in schema : fd.field = k THEN args[k] ELSE Undef]

\* schema.parse(args): the parsed data, or the ZodError it throws.
ZodParse(schema, refined, args) ==
    LET fieldIssues == FieldIssues(schema, args)
        rootIssue ==
            IF refined /\ ~Aborted(schema, args) /\ ~DateOrderHolds(args)
            THEN {"(root)"} ELSE {}
        issues == fieldIssues \cup rootIssue
    IN  IF issues = {}
        THEN [ok |-> TRUE, data |-> Strip(schema, args)]
        ELSE [ok |-> FALSE, error |-> [cls |-> "ZodError", issues |-> issues]]

SubscriptionMetricsSchema(args) == ZodParse(SubscriptionMetricsFields, TRUE, args)

(***************************************************************************)
(* Errors, messages and results.  A text is either a message, kept as its  *)
(* pieces in order, or the JSON text of a value.                           *)
(***************************************************************************)
version == "0.1.0"

Message(segs) == [fmt |-> "message", segs |-> segs]
JSONStringify(v) == [fmt |-> "json", val |-> v]

\* new Error(message)
NewError(segs) == [cls |-> "Error", message |-> segs]

\* What reading a property of undefined throws.
NewTypeError(segs) == [cls |-> "TypeError", message |-> segs]

\* The error the deadline timer rejects with.
TimeoutError == NewError(<<"Request timed out">>)

ToolResult(text, isError) ==
    [content |-> <<[type |-> "text", text |-> text]>>, isError |-> isError]

\* error.headers?.['retry-after']
RetryAfterOf(error) ==
    IF error.headers = Undef THEN Undef ELSE error.headers.retryAfter

RateLimitResult(error) ==
    ToolResult(Message(<<"Rate limit exceeded. Retry after ",
                         JsString(RetryAfterOf(error)), " seconds.">>), TRUE)

\* error.format() is an object; the template literal prints it with String().
ZodErrorResult(error) ==
    ToolResult(Message(<<"Invalid arguments: ",
                         JsString([t |-> "object", issues |-> error.issues])>>), TRUE)

StripeErrorResult(error) ==
    ToolResult(Message(<<"Stripe API Error v", version, ": ">> \o error.message
                       \o <<" (code: ", JsString(error.code), ")">>), TRUE)

GenericErrorResult(error) ==
    ToolResult(Message(<<"Error v", version, ": ">> \o error.message), TRUE)

\* A test that takes no error for a rate limit.
IsRateLimitNever(error) == FALSE

IsRateLimit(error) == error.cls = "StripeError" /\ error.type = "rate_limit"

\* The catch block of handleToolCall.
Catch(impl, error) ==
    IF IsRateLimit(error) THEN RateLimitResult(error)
    ELSE IF impl = "zod" /\ error.cls = "ZodError" THEN ZodErrorResult(error)
    ELSE IF impl = "zod" /\ error.cls = "StripeError" THEN StripeErrorResult(error)
    ELSE GenericErrorResult(error)

(***************************************************************************)
(* The switch of handleToolCall up to its provider call: the request it    *)
(* issues, or the error it throws before issuing one.                      *)
(***************************************************************************)
Request(api, params) == [api |-> api, params |-> params]
Throw(error) == [k |-> "throw", error |-> error]
Call(request) == [k |-> "call", request |-> request]
Return(result) == [k |-> "return", result |-> result]

ProbeRequest == Request("balance.retrieve", [probe |-> TRUE])

\* The arguments after the tool's validation: zod's parse in index.ts, a cast
\* in the hand-written version.
Parse(impl, schema, args) ==
    IF impl = "zod" THEN ZodParse(schema, FALSE, args)
    ELSE [ok |-> TRUE, data |-> args]

\* value ? Math.floor(new Date(value).getTime() / 1000) : undefined
EpochSeconds(v) ==
    IF Truthy(v)
    THEN (IF GetTime(v).t = "NaN" THEN NaN ELSE FloorSeconds(GetTime(v)))
    ELSE Undef

SubscriptionsRequest(gte, lte) ==
    Request("subscriptions.list",
            [status |-> "active", gte |-> gte, lte |-> lte,
             expand |-> "data.items.data.price"])

\* a > b on two numbers.
Greater(a, b) == a.t = "number" /\ b.t = "number" /\ a.num * b.den > b.num * a.den

\* case "stripe_subscription_metrics" of the hand-written version, up to its call.
ManualSubscriptionMetrics(args) ==
    LET fromDate == EpochSeconds(args.from_date)
        toDate == EpochSeconds(args.to_date)
    IN  IF fromDate.t = "NaN"
        THEN Throw(NewError(<<"Invalid 'from_date'.  Use ISO 8601 format.">>))
        ELSE IF toDate.t = "NaN"
        THEN Throw(NewError(<<"Invalid 'to_date'. Use ISO 8601 format.">>))
        ELSE IF Truthy(fromDate) /\ Truthy(toDate) /\ Greater(fromDate, toDate)
        THEN Throw(NewError(<<"'from_date' must be before 'to_date'.">>))
        ELSE Call(SubscriptionsRequest(fromDate, toDate))

\* case "stripe_subscription_metrics" of index.ts, up to its call.
ZodSubscriptionMetrics(args) ==
    LET parsed == SubscriptionMetricsSchema(args)
    IN  IF ~parsed.ok THEN Throw(parsed.error)
        ELSE Call(SubscriptionsRequest(EpochSeconds(parsed.data.from_date),
                                       EpochSeconds(parsed.data.to_date)))

\* A listing case that fills in a limit when the caller gave none.
ListCaseDefaultLimit(impl, schema, api, args) ==
    LET parsed == Parse(impl, schema, args)
    IN  IF ~parsed.ok THEN Throw(parsed.error)
        ELSE Call(Request(api, [parsed.data EXCEPT
                                   !.limit = IF @ = Undef THEN IntNum(10) ELSE @]))

\* A listing case: parse, then list with the parsed arguments.
ListCase(impl, schema, api, args) ==
    LET parsed == Parse(impl, schema, args)
    IN  IF ~parsed.ok THEN Throw(parsed.error)
        ELSE Call(Request(api, parsed.data))

PaymentMethodsCase(impl, args) ==
    LET parsed == Parse(impl, GetPaymentMethodsSchema, args)
    IN  IF ~parsed.ok THEN Throw(parsed.error)
        ELSE Call(Request("paymentMethods.list",
                          [customer |-> parsed.data.customer, type |-> "card"]))

UnknownTool(name) == Throw(NewError(<<"Unknown tool: ", name>>))

Switch(impl, name, args) ==
    CASE name = "stripe_list_transactions" ->
            ListCase(impl, ListTransactionsSchema, "charges.list", args)
      [] name = "stripe_get_balance" ->
            Call(Request("balance.retrieve", [probe |-> FALSE]))
      [] name = "stripe_list_customers" ->
            ListCase(impl, ListCustomersSchema, "customers.list", args)
      [] name = "stripe_payment_methods" -> PaymentMethodsCase(impl, args)
      [] name = "stripe_invoice_history" ->
            ListCase(impl, GetInvoiceHistorySchema, "invoices.list", args)
      [] name = "stripe_subscription_metrics" ->
            (IF impl = "zod" THEN ZodSubscriptionMetrics(args)
             ELSE ManualSubscriptionMetrics(args))
      [] OTHER -> UnknownTool(name)

\* Whether the branch of a tool validates its arguments before its provider
\* call: every branch of index.ts but stripe_get_balance parses them; the
\* hand-written version checks only the dates of stripe_subscription_metrics.
Validates(impl, name) ==
    IF impl = "zod" THEN name \in ToolNames \ {"stripe_get_balance"}
    ELSE name = "stripe_subscription_metrics"

(***************************************************************************)
(* The metrics of a page of subscriptions.  A subscription is the sequence *)
(* of its line items; an item has a price (or none) and a quantity.        *)
(***************************************************************************)
Price(unit) == [t |-> "object", unit_amount |-> unit]
Item(price, quantity) == [price |-> price, quantity |-> quantity]

\* item.price?.unit_amount in index.ts; item.price.unit_amount, which throws on
\* an item without price, in the hand-written version.
UnitAmount(item) == IF item.price = Undef THEN Undef ELSE item.price.unit_amount

ItemValue(impl, item) ==
    IF impl = "zod"
    THEN Mul(OrElse(UnitAmount(item), IntNum(0)), item.quantity)
    ELSE Mul(OrElse(UnitAmount(item), IntNum(0)), OrElse(item.quantity, IntNum(1)))

RECURSIVE SumItems(_, _, _)
SumItems(impl, items, i) ==
    IF i > Len(items) THEN IntNum(0)
    ELSE Add(ItemValue(impl, items[i]), SumItems(impl, items, i + 1))

RECURSIVE SumSubscriptions(_, _, _)
SumSubscriptions(impl, subs, i) ==
    IF i > Len(subs) THEN IntNum(0)
    ELSE Add(SumItems(impl, subs[i], 1), SumSubscriptions(impl, subs, i + 1))

\* Minor units in a major unit: the divisor of the mrr.
MinorPerMajor == 100

Mrr(impl, subs) == DivBy(SumSubscriptions(impl, subs, 1), MinorPerMajor)

Metrics(impl, subs) ==
    [active_subscriptions |-> IntNum(Len(subs)),
     mrr |-> Mrr(impl, subs),
     average_subscription_value |->
        IF Len(subs) > 0 THEN DivBy(Mrr(impl, subs), Len(subs)) ELSE IntNum(0)]

\* JSON.stringify writes NaN as null.
JsonNumber(v) == IF v.t = "NaN" THEN [t |-> "null"] ELSE v

MetricsJson(m) ==
    JSONStringify([active_subscriptions |-> JsonNumber(m.active_subscriptions),
                   mrr |-> JsonNumber(m.mrr),
                   average_subscription_value |-> JsonNumber(m.average_subscription_value)])

\* Whether some item of the page has no price object.
MissingPrice(subs) ==
    \E i \in 1..Len(subs) : \E j \in 1..Len(subs[i]) : subs[i][j].price = Undef

(***************************************************************************)
(* The switch of handleToolCall after its provider call has answered with  *)
(* body: the result it returns, or the error it throws.                    *)
(***************************************************************************)
\* !x.data || !Array.isArray(x.data)
\* The guard without its Array.isArray half.
NoDataArrayOnlyMissing(body) == ~Truthy(body.data)

\* The guard with its negation lost: a page that has data is refused.
NoDataArrayNegationLost(body) == Truthy(body.data)

NoDataArray(body) == ~Truthy(body.data) \/ body.data.t # "array"

InvalidResponse(what) ==
    Throw(NewError(<<"Invalid response from Stripe API (", what, ")">>))

ListingLabel(name) ==
    CASE name = "stripe_list_transactions" -> "list transactions"
      [] name = "stripe_list_customers" -> "list customers"
      [] name = "stripe_payment_methods" -> "payment methods"
      [] name = "stripe_invoice_history" -> "invoice history"
      [] name = "stripe_subscription_metrics" -> "subscription metrics"

AfterResponse(impl, name, body) ==
    IF name = "stripe_get_balance"
    THEN Return(ToolResult(JSONStringify(body), FALSE))
    ELSE IF NoDataArray(body) THEN InvalidResponse(ListingLabel(name))
    ELSE IF name # "stripe_subscription_metrics"
    THEN Return(ToolResult(JSONStringify(body.data), FALSE))
    ELSE IF impl = "manual" /\ MissingPrice(body.data.a)
    THEN Throw(NewTypeError(<<"Cannot read properties of undefined (reading 'unit_amount')">>))
    ELSE Return(ToolResult(MetricsJson(Metrics(impl, body.data.a)), FALSE))

\* What the awaited race gives the handler: the response's outcome.
Settled(impl, name, response) ==
    LET outcome ==
            IF response.k = "error" THEN Throw(response.error)
            ELSE AfterResponse(impl, name, response.body)
    IN  IF outcome.k = "throw" THEN Catch(impl, outcome.error) ELSE outcome.result

(***************************************************************************)
(* Module evaluation: the top-level statements that can end the process    *)
(* before it serves.  A builder chain is constructed method by method; a   *)
(* method the object at hand does not have throws a TypeError.             *)
(***************************************************************************)
ZodClass(base) == IF base = "number" THEN "ZodNumber" ELSE "ZodString"

ZodMethods(cls) ==
    CASE cls = "ZodNumber" -> {"int", "positive", "max", "optional"}
      [] cls = "ZodString" -> {"datetime", "optional"}
      [] cls = "ZodOptional" -> {"optional"}

ClassAfter(cls, m) == IF m = "optional" THEN "ZodOptional" ELSE cls

RECURSIVE ChainBuilds(_, _)
ChainBuilds(cls, chain) ==
    IF chain = <<>> THEN TRUE
    ELSE /\ Head(chain) \in ZodMethods(cls)
         /\ ChainBuilds(ClassAfter(cls, Head(chain)), Tail(chain))

SchemaBuilds(schema) == \A fd \in schema : ChainBuilds(ZodClass(fd.base), fd.chain)

SchemaNamed(s) ==
    CASE s = "ListTransactionsSchema" -> ListTransactionsSchema
      [] s = "ListCustomersSchema" -> ListCustomersSchema
      [] s = "GetBalanceSchema" -> GetBalanceSchema
      [] s = "GetPaymentMethodsSchema" -> GetPaymentMethodsSchema
      [] s = "GetInvoiceHistorySchema" -> GetInvoiceHistorySchema
      [] s = "SubscriptionMetricsSchema" -> SubscriptionMetricsFields

SchemaNames ==
    { "ListTransactionsSchema", "ListCustomersSchema", "GetBalanceSchema",
      "GetPaymentMethodsSchema", "GetInvoiceHistorySchema",
      "SubscriptionMetricsSchema" }

\* The top-level statements in the order the module evaluates them.
ModuleStatements(impl) ==
    IF impl = "zod"
    THEN << "requiredEnvVars", "ListTransactionsSchema", "ListCustomersSchema",
            "GetBalanceSchema", "GetPaymentMethodsSchema", "GetInvoiceHistorySchema",
            "SubscriptionMetricsSchema", "TOOLS", "server", "setRequestHandler",
            "runServer" >>
    ELSE << "requiredEnvVars", "TOOLS", "server", "setRequestHandler", "runServer" >>

\* How evaluating statement s ends: "next", or the process state it ends in.
StatementOutcome(s, keySet) ==
    IF s = "requiredEnvVars" /\ ~keySet THEN "exited"
    ELSE IF s \in SchemaNames /\ ~SchemaBuilds(SchemaNamed(s)) THEN "crashed"
    ELSE "next"

(***************************************************************************)
(* Inputs: the calls a client can make and the answers the provider can    *)
(* give.                                                                   *)
(***************************************************************************)
Impls == {"zod", "manual"}

UnknownNames == {"stripe_refund", "stripe_get_balances"}
Names == ToolNames \cup UnknownNames

LimitValues ==
    { Undef, IntNum(-1), IntNum(0), IntNum(1), IntNum(MaxLimit), IntNum(MaxLimit + 1),
      IntNum(150), Num(3, 2), Str("10") }
CursorValues == {Undef, Str("obj_1")}
EmailValues == {Undef, Str("a@b.c")}
CustomerValues == {Undef, Str(""), Str("cus_1"), IntNum(7)}
DateValues == {Undef, Str(""), Str("junk")} \cup {Str(d) : d \in DateStrings}
OtherValues == {Undef, IntNum(1)}

ArgsOf(name) ==
    CASE name = "stripe_list_transactions" ->
            {[NoArgs EXCEPT !.limit = l, !.starting_after = sa, !.ending_before = eb] :
                l \in LimitValues, sa \in CursorValues, eb \in CursorValues}
      [] name = "stripe_get_balance" ->
            {[NoArgs EXCEPT !.other = o] : o \in OtherValues}
      [] name = "stripe_list_customers" ->
            {[NoArgs EXCEPT !.limit = l, !.starting_after = sa, !.email = e] :
                l \in LimitValues, sa \in CursorValues, e \in EmailValues}
      [] name = "stripe_payment_methods" ->
            {[NoArgs EXCEPT !.customer = cu, !.other = o] :
                cu \in CustomerValues, o \in OtherValues}
      [] name = "stripe_invoice_history" ->
            {[NoArgs EXCEPT !.customer = cu, !.limit = l, !.ending_before = eb] :
                cu \in CustomerValues, l \in LimitValues, eb \in CursorValues}
      [] name = "stripe_subscription_metrics" ->
            {[NoArgs EXCEPT !.from_date = f, !.to_date = u] :
                f \in DateValues, u \in DateValues}
      [] OTHER -> {NoArgs, [NoArgs EXCEPT !.limit = IntNum(1)]}

\* A few calls of each kind, for the runs with several calls in flight.
FewArgsOf(name) ==
    CASE name = "stripe_list_customers" ->
            {NoArgs, [NoArgs EXCEPT !.limit = IntNum(150)]}
      [] name = "stripe_subscription_metrics" ->
            {[NoArgs EXCEPT !.from_date = Str("1970-01-01T00:00:02.000Z"),
                            !.to_date = Str("1970-01-01T00:00:01.000Z")]}
      [] OTHER -> {NoArgs}

FewNames == {"stripe_get_balance", "stripe_list_customers",
             "stripe_subscription_metrics", "stripe_refund"}

\* Errors the provider client rejects with.
Headers(retryAfter) == [t |-> "object", retryAfter |-> retryAfter]

StripeError(type, code, headers) ==
    [cls |-> "StripeError", type |-> type, code |-> code,
     message |-> <<"provider says no">>, headers |-> headers]

StripeErrors ==
    { StripeError("rate_limit", Undef, Headers(Str("30"))),
      StripeError("rate_limit", Undef, Headers(Undef)),
      StripeError("rate_limit", Undef, Undef),
      StripeError("invalid_request_error", Str("resource_missing"), Headers(Undef)),
      StripeError("api_error", Undef, Undef) }

ErrorResponse(error) == [k |-> "error", error |-> error]
OkResponse(body) == [k |-> "ok", body |-> body]

\* Pages of subscriptions.
SubPages ==
    { <<>>,
      << <<Item(Price(IntNum(2000)), IntNum(1))>>, <<Item(Price(IntNum(500)), IntNum(2))>> >>,
      << <<Item(Price(IntNum(1999)), IntNum(1)), Item(Price(IntNum(1)), IntNum(3))>> >>,
      << <<Item(Price(Undef), IntNum(2))>>, <<Item(Price(IntNum(500)), IntNum(1))>> >>,
      << <<Item(Price(IntNum(2000)), Undef)>> >>,
      << <<Item(Price(IntNum(2000)), IntNum(0))>>, <<>> >>,
      << <<Item(Undef, IntNum(1))>> >> }

ListBodies(api) ==
    IF api = "subscriptions.list" THEN {[data |-> Arr(p)] : p \in SubPages}
    ELSE {[data |-> Arr(<<>>)], [data |-> Arr(<<Str("obj_1"), Str("obj_2")>>)]}

\* A listing answer without a data array.
MalformedBodies == {[data |-> Undef], [data |-> Str("oops")]}

BalanceBodies == {[object |-> "balance", available |-> IntNum(1200)]}

Responses(api) ==
    {ErrorResponse(e) : e \in StripeErrors}
        \cup {OkResponse(b) : b \in
                 (IF api = "balance.retrieve" THEN BalanceBodies
                  ELSE ListBodies(api) \cup MalformedBodies)}

FewResponses(api) ==
    { ErrorResponse(StripeError("api_error", Undef, Undef)) }
        \cup {OkResponse(b) : b \in
                 (IF api = "balance.retrieve" THEN BalanceBodies ELSE {[data |-> Arr(<<>>)]})}

(***************************************************************************)
(* The state.  Time advances in ticks of TickMs milliseconds.              *)
(***************************************************************************)
TIMEOUT_MS == 30000
TickMs == 15000
Deadline == TIMEOUT_MS \div TickMs

\* Calls of one run, and the ticks a call is followed while in flight.
MaxCalls == 2
MaxWait == 4

CallIds == 1..MaxCalls

VARIABLES
    impl,       \* which version of the server runs: "zod" or "manual"
    keySet,     \* whether STRIPE_SECRET_KEY is set
    proc,       \* "evaluating", "serving", "exited" (process.exit) or "crashed"
    stmt,       \* top-level statements evaluated so far
    pc,         \* per call: "idle", "init", "racing", "returned"
    name,       \* per call: the tool name
    args,       \* per call: the argument mapping
    sent,       \* per call: the provider requests issued, in order
    resp,       \* per call: the answer to its tool request
    timer,      \* per call: the deadline timer, "unset", "armed" or "fired"
    timerLeft,  \* per call: ticks until the armed timer fires
    observed,   \* per call: whether timeoutPromise has a handler (was raced)
    waited,     \* per call: ticks from the request to the result
    result,     \* per call: the tool result returned
    unhandled,  \* calls whose timeoutPromise rejected with no handler
    read,       \* the resource read: its position, uri, requests, balance and result
    suggest     \* the tool suggestion: its position, inputs and results

vars ==
    << impl, keySet, proc, stmt, pc, name, args, sent, resp, timer, timerLeft,
       observed, waited, result, unhandled, read, suggest >>

None == [t |-> "none"]
NoResponse == [k |-> "none"]
Pending == [k |-> "pending"]
Discarded == [k |-> "discarded"]

\* No resource read received.
ReadIdle == [pc |-> "idle", uri |-> "", sent |-> <<>>, balance |-> Undef, result |-> None]

CallsIdle ==
    /\ read = ReadIdle
    /\ suggest = [pc |-> "idle", interactionCount |-> 0, should |-> FALSE,
                  graph |-> [entities |-> <<>>, relations |-> <<>>],
                  availableTools |-> <<>>, result |-> None]
    /\ pc = [c \in CallIds |-> "idle"]
    /\ name = [c \in CallIds |-> ""]
    /\ args = [c \in CallIds |-> NoArgs]
    /\ sent = [c \in CallIds |-> <<>>]
    /\ resp = [c \in CallIds |-> NoResponse]
    /\ timer = [c \in CallIds |-> "unset"]
    /\ timerLeft = [c \in CallIds |-> 0]
    /\ observed = [c \in CallIds |-> FALSE]
    /\ waited = [c \in CallIds |-> 0]
    /\ result = [c \in CallIds |-> None]
    /\ unhandled = {}

\* A process whose server is connected: the state the request handler starts
\* from.  Whether the evaluation of the module gets there is what SpecModule
\* examines, from InitModule.
Init ==
    /\ impl \in Impls
    /\ keySet = TRUE
    /\ proc = "serving"
    /\ stmt = Len(ModuleStatements(impl))
    /\ CallsIdle

\* A process about to evaluate its module.
InitModule ==
    /\ impl \in Impls
    /\ keySet \in BOOLEAN
    /\ proc = "evaluating"
    /\ stmt = 0
    /\ CallsIdle

\* Evaluation of the next top-level statement.
EvaluateStatement ==
    /\ proc = "evaluating"
    /\ LET outcome == StatementOutcome(ModuleStatements(impl)[stmt + 1], keySet)
       IN  IF outcome = "next"
           THEN /\ stmt' = stmt + 1
                /\ proc' = IF stmt + 1 = Len(ModuleStatements(impl))
                            THEN "serving" ELSE "evaluating"
           ELSE /\ proc' = outcome
                /\ stmt' = stmt
    /\ UNCHANGED << impl, keySet, suggest, read, pc, name, args, sent, resp, timer, timerLeft,
                    observed, waited, result, unhandled >>

\* The request handler calls handleToolCall, which calls initializeStripe: the
\* client is constructed and the probe is sent.
Receive(c, n, a) ==
    /\ proc = "serving"
    /\ pc[c] = "idle"
    /\ pc' = [pc EXCEPT ![c] = "init"]
    /\ name' = [name EXCEPT ![c] = n]
    /\ args' = [args EXCEPT ![c] = a]
    /\ sent' = [sent EXCEPT ![c] = <<ProbeRequest>>]
    /\ UNCHANGED << impl, keySet, suggest, read, proc, stmt, resp, timer, timerLeft, observed,
                    waited, result, unhandled >>

\* The probe fails: the catch of initializeStripe ends the process.
ProbeFails(c) ==
    /\ proc = "serving"
    /\ pc[c] = "init"
    /\ proc' = "exited"
    /\ UNCHANGED << impl, keySet, suggest, read, stmt, pc, name, args, sent, resp, timer, timerLeft,
                    observed, waited, result, unhandled >>

\* The probe succeeds: the handler arms the timer and runs its switch up to the
\* tool's provider call, or to the error thrown before it.
ProbeSucceeds(c) ==
    /\ proc = "serving"
    /\ pc[c] = "init"
    /\ timer' = [timer EXCEPT ![c] = "armed"]
    /\ timerLeft' = [timerLeft EXCEPT ![c] = Deadline]
    /\ LET step == Switch(impl, name[c], args[c])
       IN  IF step.k = "throw"
           THEN /\ result' = [result EXCEPT ![c] = Catch(impl, step.error)]
                /\ pc' = [pc EXCEPT ![c] = "returned"]
                /\ UNCHANGED << sent, resp, observed >>
           ELSE /\ sent' = [sent EXCEPT ![c] = Append(@, step.request)]
                /\ resp' = [resp EXCEPT ![c] = Pending]
                /\ observed' = [observed EXCEPT ![c] = TRUE]
                /\ pc' = [pc EXCEPT ![c] = "racing"]
                /\ UNCHANGED result
    /\ UNCHANGED << impl, keySet, suggest, read, proc, stmt, name, args, waited, unhandled >>

\* The API of the tool request call c awaits.
AwaitedApi(c) == IF pc[c] = "racing" THEN sent[c][Len(sent[c])].api ELSE "none"

\* An answer that is still handled after the process has ended.
ResponseWinsAfterExit(c, r) ==
    /\ pc[c] = "racing"
    /\ resp[c] = Pending
    /\ resp' = [resp EXCEPT ![c] = r]
    /\ result' = [result EXCEPT ![c] = Settled(impl, name[c], r)]
    /\ pc' = [pc EXCEPT ![c] = "returned"]
    /\ UNCHANGED << impl, keySet, suggest, read, proc, stmt, name, args, sent, timer, timerLeft,
                    observed, waited, unhandled >>

\* A handler that sends its request again when the provider answers with an error.
ResponseWinsRetries(c, r) ==
    /\ proc = "serving"
    /\ pc[c] = "racing"
    /\ resp[c] = Pending
    /\ IF r.k = "error" /\ Len(sent[c]) < 3
       THEN /\ sent' = [sent EXCEPT ![c] = Append(@, @[Len(@)])]
            /\ UNCHANGED << resp, result, pc >>
       ELSE /\ resp' = [resp EXCEPT ![c] = r]
            /\ result' = [result EXCEPT ![c] = Settled(impl, name[c], r)]
            /\ pc' = [pc EXCEPT ![c] = "returned"]
            /\ sent' = sent
    /\ UNCHANGED << impl, keySet, suggest, read, proc, stmt, name, args, timer, timerLeft,
                    observed, waited, unhandled >>

\* The provider answers before the timer fires: the race settles with the answer.
ResponseWins(c, r) ==
    /\ proc = "serving"
    /\ pc[c] = "racing"
    /\ resp[c] = Pending
    /\ resp' = [resp EXCEPT ![c] = r]
    /\ result' = [result EXCEPT ![c] = Settled(impl, name[c], r)]
    /\ pc' = [pc EXCEPT ![c] = "returned"]
    /\ UNCHANGED << impl, keySet, suggest, read, proc, stmt, name, args, sent, timer, timerLeft,
                    observed, waited, unhandled >>

\* The timer fires first: the race rejects with the timeout error.
DeadlineWins(c) ==
    /\ proc = "serving"
    /\ pc[c] = "racing"
    /\ timer[c] = "armed"
    /\ timerLeft[c] = 0
    /\ timer' = [timer EXCEPT ![c] = "fired"]
    /\ result' = [result EXCEPT ![c] = Catch(impl, TimeoutError)]
    /\ pc' = [pc EXCEPT ![c] = "returned"]
    /\ UNCHANGED << impl, keySet, suggest, read, proc, stmt, name, args, sent, resp, timerLeft,
                    observed, waited, unhandled >>

\* The provider answers after the race was lost: the answer is dropped.
LateResponse(c) ==
    /\ proc = "serving"
    /\ pc[c] = "returned"
    /\ resp[c] = Pending
    /\ resp' = [resp EXCEPT ![c] = Discarded]
    /\ UNCHANGED << impl, keySet, suggest, read, proc, stmt, pc, name, args, sent, timer, timerLeft,
                    observed, waited, result, unhandled >>

\* A late timer that replaces the result already returned by the timeout failure.
TimerLateOverwrites(c) ==
    /\ proc = "serving"
    /\ pc[c] = "returned"
    /\ timer[c] = "armed"
    /\ timerLeft[c] = 0
    /\ observed[c]
    /\ timer' = [timer EXCEPT ![c] = "fired"]
    /\ result' = [result EXCEPT ![c] = Catch(impl, TimeoutError)]
    /\ UNCHANGED << impl, keySet, suggest, read, proc, stmt, pc, name, args, sent, resp, timerLeft,
                    observed, waited, unhandled >>

\* The timer fires after the race was won by the answer: the rejection goes to the
\* settled race and is dropped.
TimerLate(c) ==
    /\ proc = "serving"
    /\ pc[c] = "returned"
    /\ timer[c] = "armed"
    /\ timerLeft[c] = 0
    /\ observed[c]
    /\ timer' = [timer EXCEPT ![c] = "fired"]
    /\ UNCHANGED << impl, keySet, suggest, read, proc, stmt, pc, name, args, sent, resp, timerLeft,
                    observed, waited, result, unhandled >>

\* What the runtime does with an unhandled rejection: end the process, or warn.
RejectionModes == {"throw", "warn"}

\* The timer fires on a timeoutPromise that was never raced.
TimerUnobserved(c, mode) ==
    /\ proc = "serving"
    /\ pc[c] = "returned"
    /\ timer[c] = "armed"
    /\ timerLeft[c] = 0
    /\ ~observed[c]
    /\ timer' = [timer EXCEPT ![c] = "fired"]
    /\ unhandled' = unhandled \cup {c}
    /\ proc' = IF mode = "throw" THEN "crashed" ELSE proc
    /\ UNCHANGED << impl, keySet, suggest, read, stmt, pc, name, args, sent, resp, timerLeft,
                    observed, waited, result >>

InFlight(c) == pc[c] \in {"init", "racing"}

\* One tick passes: no timer is due, and a call is followed up to MaxWait ticks.
Tick ==
    /\ proc = "serving"
    /\ \E c \in CallIds : InFlight(c) \/ timer[c] = "armed"
    /\ \A c \in CallIds : timer[c] = "armed" => timerLeft[c] > 0
    /\ \A c \in CallIds : InFlight(c) => waited[c] < MaxWait
    /\ timerLeft' = [c \in CallIds |->
                        IF timer[c] = "armed" THEN timerLeft[c] - 1 ELSE timerLeft[c]]
    /\ waited' = [c \in CallIds |-> IF InFlight(c) THEN waited[c] + 1 ELSE waited[c]]
    /\ UNCHANGED << impl, keySet, suggest, read, proc, stmt, pc, name, args, sent, resp, timer,
                    observed, result, unhandled >>

(***************************************************************************)
(* The ReadResource handler.  In part_000 it initializes the client, reads *)
(* the balance, lists five charges and builds a text summary, all inside   *)
(* one try; in index.ts its body is empty.                                 *)
(***************************************************************************)
DashboardUri == "stripe://dashboard"

Uris == {DashboardUri, "stripe://other"}

BalanceRequest == Request("balance.retrieve", [probe |-> FALSE])

RecentCharges == 5

ChargesRequest == Request("charges.list", [limit |-> IntNum(RecentCharges)])

Funds(amount, currency) == [amount |-> IntNum(amount), currency |-> currency]

\* Balances: no available funds, some funds, and an object without available.
ReadBalances ==
    { [available |-> Arr(<<>>)],
      [available |-> Arr(<<Funds(12345, "usd")>>)],
      [available |-> Undef] }

Charge(amount, currency, created) ==
    [amount |-> IntNum(amount), currency |-> currency, created |-> created]

\* Charge listings: empty, two charges, and an answer without data.
ReadCharges ==
    { [data |-> Arr(<<>>)],
      [data |-> Arr(<<Charge(2000, "usd", 1), Charge(50, "eur", 2)>>)],
      [data |-> Undef] }

ReadResponses(bodies) ==
    {ErrorResponse(e) : e \in StripeErrors} \cup {OkResponse(b) : b \in bodies}

CentsPerUnit == 100

\* balance.available.length ? balance.available[0].amount / 100 : 0
BalanceAmount(balance) ==
    IF Len(balance.available.a) > 0
    THEN DivBy(balance.available.a[1].amount, CentsPerUnit) ELSE IntNum(0)

BalanceCurrency(balance) ==
    IF Len(balance.available.a) > 0 THEN balance.available.a[1].currency ELSE ""

\* One line of the summary: amount / 100, currency, date of created.
TransactionLine(transaction) ==
    [amount |-> DivBy(transaction.amount, CentsPerUnit),
     currency |-> transaction.currency,
     date |-> transaction.created]

TransactionLines(transactions) ==
    IF Truthy(transactions.data)
    THEN [i \in 1..Len(transactions.data.a) |-> TransactionLine(transactions.data.a[i])]
    ELSE <<>>

Summary(balance, transactions) ==
    [fmt |-> "summary",
     balance |-> BalanceAmount(balance),
     currency |-> BalanceCurrency(balance),
     lines |-> TransactionLines(transactions)]

\* The payload the handler returns with a text.
ReadPayload(text, uri) ==
    [contents |-> <<[type |-> "text", text |-> text, mimeType |-> "text/plain", uri |-> uri]>>,
     isError |-> FALSE]

\* The payload of the catch block.
ReadErrorPayload(error, uri) ==
    [contents |-> <<[type |-> "text",
                     text |-> Message(<<"Error fetching dashboard data: ">> \o error.message),
                     mimeType |-> "text/plain", uri |-> uri, isError |-> TRUE]>>,
     isError |-> TRUE]

\* The handler is entered: index.ts returns nothing; part_000 throws for a uri
\* other than the dashboard and otherwise starts initializeStripe.
ReadReceive(uri) ==
    /\ proc = "serving"
    /\ read.pc = "idle"
    /\ read' =
          IF impl = "zod"
          THEN [read EXCEPT !.pc = "returned", !.uri = uri, !.result = Undef]
          ELSE IF uri # DashboardUri
          THEN [read EXCEPT !.pc = "thrown", !.uri = uri]
          ELSE [read EXCEPT !.pc = "init", !.uri = uri, !.sent = <<ProbeRequest>>]
    /\ UNCHANGED << impl, keySet, suggest, proc, stmt, pc, name, args, sent, resp, timer,
                    timerLeft, observed, waited, result, unhandled >>

\* The probe fails: the catch of initializeStripe ends the process.
ReadProbeFails ==
    /\ proc = "serving"
    /\ read.pc = "init"
    /\ proc' = "exited"
    /\ UNCHANGED << impl, keySet, suggest, read, stmt, pc, name, args, sent, resp, timer,
                    timerLeft, observed, waited, result, unhandled >>

\* The probe succeeds: the handler asks for the balance.
ReadProbeSucceeds ==
    /\ proc = "serving"
    /\ read.pc = "init"
    /\ read' = [read EXCEPT !.pc = "balance", !.sent = Append(@, BalanceRequest)]
    /\ UNCHANGED << impl, keySet, suggest, proc, stmt, pc, name, args, sent, resp, timer,
                    timerLeft, observed, waited, result, unhandled >>

\* The balance request settles: an error goes to the catch block, a balance is
\* kept and the charges are asked for.
ReadBalance(r) ==
    /\ proc = "serving"
    /\ read.pc = "balance"
    /\ read' =
          IF r.k = "error"
          THEN [read EXCEPT !.pc = "returned",
                            !.result = ReadErrorPayload(r.error, read.uri)]
          ELSE [read EXCEPT !.pc = "charges", !.balance = r.body,
                            !.sent = Append(@, ChargesRequest)]
    /\ UNCHANGED << impl, keySet, suggest, proc, stmt, pc, name, args, sent, resp, timer,
                    timerLeft, observed, waited, result, unhandled >>

\* The charges request settles: an error, or a balance without available, goes
\* to the catch block; otherwise the summary is returned.
ReadTransactions(r) ==
    /\ proc = "serving"
    /\ read.pc = "charges"
    /\ read' =
          IF r.k = "error"
          THEN [read EXCEPT !.pc = "returned",
                            !.result = ReadErrorPayload(r.error, read.uri)]
          ELSE IF read.balance.available = Undef
          THEN [read EXCEPT !.pc = "returned",
                            !.result = ReadErrorPayload(
                                NewTypeError(<<"Cannot read properties of undefined (reading 'length')">>),
                                read.uri)]
          ELSE [read EXCEPT !.pc = "returned",
                            !.result = ReadPayload(Summary(read.balance, r.body), read.uri)]
    /\ UNCHANGED << impl, keySet, suggest, proc, stmt, pc, name, args, sent, resp, timer,
                    timerLeft, observed, waited, result, unhandled >>

\* ---------------------------------------------------------------------------
\* The tool suggestion service (SuggestionService.ts).

SUGGESTION_INTERVAL == 1

UpperCaseLetters == "ABCDEFGHIJKLMNOPQRSTUVWXYZ"
LowerCaseLetters == "abcdefghijklmnopqrstuvwxyz"

\* toLowerCase that leaves the string as it is.
toLowerCaseKept(s) == s

\* One character lower-cased: an upper-case letter gives its lower-case letter,
\* any other character is kept.
LowerChar(ch) ==
    IF \E i \in 1..Len(UpperCaseLetters) : SubSeq(UpperCaseLetters, i, i) = ch
    THEN LET i == CHOOSE i \in 1..Len(UpperCaseLetters) : SubSeq(UpperCaseLetters, i, i) = ch
         IN  SubSeq(LowerCaseLetters, i, i)
    ELSE ch

RECURSIVE toLowerCase(_)
\* String.prototype.toLowerCase, character by character.
toLowerCase(s) ==
    IF Len(s) = 0 THEN ""
    ELSE LowerChar(SubSeq(s, 1, 1)) \o toLowerCase(SubSeq(s, 2, Len(s)))

\* String.prototype.includes: t occurs in s at some position.
includes(s, t) ==
    \E i \in 0..(Len(s) - Len(t)) : SubSeq(s, i + 1, i + Len(t)) = t

\* Array.prototype.includes on a list of names.
ArrayIncludes(list, x) == \E i \in DOMAIN list : list[i] = x

\* The categories in the order Object.entries yields them.
Categories ==
    << "Browser Automation", "File Systems", "Version Control", "Databases", "Search" >>

toolMappings ==
    [category \in {Categories[i] : i \in DOMAIN Categories} |->
        CASE category = "Browser Automation" ->
                [entityTypes |-> << "webpage", "browser", "automation" >>,
                 relationTypes |-> << "scrapes", "automates", "interacts_with" >>,
                 tools |-> << "playwright-mcp-server", "server-puppeteer",
                              "mcp-server-youtube-transcript" >>]
          [] category = "File Systems" ->
                [entityTypes |-> << "file", "directory", "document" >>,
                 relationTypes |-> << "contains", "stored_in", "references" >>,
                 tools |-> << "server-filesystem", "server-google-drive",
                              "mcp-filesystem-server" >>]
          [] category = "Version Control" ->
                [entityTypes |-> << "repository", "code", "commit" >>,
                 relationTypes |-> << "contains", "depends_on", "modifies" >>,
                 tools |-> << "server-github", "server-gitlab", "server-git" >>]
          [] category = "Databases" ->
                [entityTypes |-> << "database", "table", "query" >>,
                 relationTypes |-> << "contains", "references", "joins" >>,
                 tools |-> << "server-postgres", "server-sqlite", "mcp-server-bigquery" >>]
          [] category = "Search" ->
                [entityTypes |-> << "search", "query", "result" >>,
                 relationTypes |-> << "finds", "matches", "relates_to" >>,
                 tools |-> << "server-brave-search", "mcp-servers-kagi",
                              "mcp-webresearch" >>]]

\* The % operator on integers gives a remainder with the sign of the dividend.
shouldSuggest(interactionCount) ==
    LET remainder ==
            IF interactionCount >= 0
            THEN interactionCount % SUGGESTION_INTERVAL
            ELSE 0 - ((0 - interactionCount) % SUGGESTION_INTERVAL)
    IN  remainder = 0

RECURSIVE SetOfArray(_)
\* new Set(array): the distinct values in the order of first insertion.
SetOfArray(list) ==
    IF list = <<>> THEN <<>>
    ELSE LET front == SetOfArray(SubSeq(list, 1, Len(list) - 1))
             last == list[Len(list)]
         IN  IF ArrayIncludes(front, last) THEN front ELSE Append(front, last)

\* Some entity keyword of the mapping is included in some entity type of the
\* graph, both lower-cased.
hasMatchingEntityType(mapping, entityTypes) ==
    \E i \in DOMAIN mapping.entityTypes : \E j \in DOMAIN entityTypes :
        includes(toLowerCase(entityTypes[j]), toLowerCase(mapping.entityTypes[i]))

\* Some relation keyword of the mapping is included in some relation type of
\* the graph, both lower-cased.
hasMatchingRelationType(mapping, relationTypes) ==
    \E i \in DOMAIN mapping.relationTypes : \E j \in DOMAIN relationTypes :
        includes(toLowerCase(relationTypes[j]), toLowerCase(mapping.relationTypes[i]))

RECURSIVE matchedCategories(_, _, _)
\* The loop over Object.entries(toolMappings): of the first k categories, those
\* whose entity or relation keywords match, in order.
matchedCategories(k, entityTypes, relationTypes) ==
    IF k = 0 THEN <<>>
    ELSE LET before == matchedCategories(k - 1, entityTypes, relationTypes)
             category == Categories[k]
             mapping == toolMappings[category]
         IN  IF \/ hasMatchingEntityType(mapping, entityTypes)
                \/ hasMatchingRelationType(mapping, relationTypes)
             THEN Append(before, category)
             ELSE before

RECURSIVE Filter(_, _)
\* availableTools.filter: the tools named by a matched category, in order.
Filter(availableTools, matched) ==
    IF availableTools = <<>> THEN <<>>
    ELSE LET tool == Head(availableTools)
             rest == Filter(Tail(availableTools), matched)
         IN  IF \E i \in DOMAIN matched :
                    ArrayIncludes(toolMappings[matched[i]].tools, tool.name)
             THEN << tool >> \o rest
             ELSE rest

RECURSIVE Join(_)
\* Array.prototype.join(', ').
Join(list) ==
    IF list = <<>> THEN ""
    ELSE IF Len(list) = 1 THEN list[1]
    ELSE list[1] \o ", " \o Join(Tail(list))

RECURSIVE DecimalString(_)
\* A non-negative integer in a template literal.
DecimalString(n) ==
    LET digits == "0123456789"
        last == (n % Len(digits)) + 1
    IN  IF n < Len(digits) THEN SubSeq(digits, last, last)
        ELSE DecimalString(n \div Len(digits)) \o SubSeq(digits, last, last)

generateReasoning(entityTypes, relationTypes, suggestedTools, matched) ==
    "Based on your knowledge graph containing " \o Join(entityTypes)
        \o " entities and " \o Join(relationTypes)
        \o " relations, I've identified relevant tool categories: " \o Join(matched)
        \o ". Here are " \o DecimalString(Len(suggestedTools))
        \o " suggested tools that might help with your current context."

analyzePatternsAndSuggest(graph, availableTools) ==
    LET entityTypes == SetOfArray([i \in DOMAIN graph.entities |-> graph.entities[i].entityType])
        relationTypes ==
            SetOfArray([i \in DOMAIN graph.relations |-> graph.relations[i].relationType])
        matched == matchedCategories(Len(Categories), entityTypes, relationTypes)
        suggestedTools == Filter(availableTools, matched)
    IN  [suggestedTools |-> suggestedTools,
         reasoning |-> generateReasoning(entityTypes, relationTypes, suggestedTools, matched)]

\* Inputs of the suggestion service.
MaxTypes == 2

\* Graphs of up to MaxTypes entities and MaxTypes relations.
Graphs ==
    {[entities |->
        [i \in DOMAIN es |-> [name |-> "e", entityType |-> es[i], observations |-> <<>>]],
      relations |->
        [i \in DOMAIN rs |-> [from |-> "e", to |-> "e", relationType |-> rs[i]]]] :
        es \in UNION {[1..k -> {"File", "person", "SearchQuery"}] : k \in 0..MaxTypes},
        rs \in UNION {[1..k -> {"CONTAINS", "knows", "search_in"}] : k \in 0..MaxTypes}}

MCPTool(n) == [name |-> n, description |-> "d", server |-> "s"]

ToolLists ==
    { <<>>,
      << MCPTool("server-git"), MCPTool("server-memory"), MCPTool("server-filesystem"),
         MCPTool("server-brave-search") >>,
      << MCPTool("server-brave-search"), MCPTool("server-filesystem"),
         MCPTool("server-filesystem"), MCPTool("server-sqlite") >>,
      << MCPTool("filesystem-read"), MCPTool("git-commit") >> }

\* The caller asks whether a suggestion is due.
ShouldSuggest(n) ==
    /\ suggest.pc = "idle"
    /\ suggest' = [suggest EXCEPT !.pc = "asked", !.interactionCount = n,
                                  !.should = shouldSuggest(n)]
    /\ UNCHANGED << impl, keySet, read, proc, stmt, pc, name, args, sent, resp, timer,
                    timerLeft, observed, waited, result, unhandled >>

\* The caller asks for the suggestion for a graph and a list of tools.
AnalyzePatternsAndSuggest(graph, availableTools) ==
    /\ suggest.pc = "asked"
    /\ suggest' = [suggest EXCEPT !.pc = "returned", !.graph = graph,
                                  !.availableTools = availableTools,
                                  !.result = analyzePatternsAndSuggest(graph, availableTools)]
    /\ UNCHANGED << impl, keySet, read, proc, stmt, pc, name, args, sent, resp, timer,
                    timerLeft, observed, waited, result, unhandled >>

\* One call, with every input.
Next ==
    \/ \E n \in Names : \E a \in ArgsOf(n) : Receive(1, n, a)
    \/ ProbeFails(1)
    \/ ProbeSucceeds(1)
    \/ \E r \in Responses(AwaitedApi(1)) : ResponseWins(1, r)
    \/ DeadlineWins(1)
    \/ LateResponse(1)
    \/ TimerLate(1)
    \/ \E mode \in RejectionModes : TimerUnobserved(1, mode)
    \/ Tick

Spec == Init /\ [][Next]_vars

\* Several calls in flight, with a few inputs of each kind.
NextConcurrent ==
    \/ \E c \in CallIds : \E n \in FewNames : \E a \in FewArgsOf(n) : Receive(c, n, a)
    \/ \E c \in CallIds : ProbeFails(c)
    \/ \E c \in CallIds : ProbeSucceeds(c)
    \/ \E c \in CallIds : \E r \in FewResponses(AwaitedApi(c)) : ResponseWins(c, r)
    \/ \E c \in CallIds : DeadlineWins(c)
    \/ \E c \in CallIds : LateResponse(c)
    \/ \E c \in CallIds : TimerLate(c)
    \/ \E c \in CallIds : \E mode \in RejectionModes : TimerUnobserved(c, mode)
    \/ Tick

SpecConcurrent == Init /\ [][NextConcurrent]_vars

\* One resource read interleaved with one tool call.
NextRead ==
    \/ \E uri \in Uris : ReadReceive(uri)
    \/ ReadProbeFails
    \/ ReadProbeSucceeds
    \/ \E r \in ReadResponses(ReadBalances) : ReadBalance(r)
    \/ \E r \in ReadResponses(ReadCharges) : ReadTransactions(r)
    \/ \E n \in FewNames : \E a \in FewArgsOf(n) : Receive(1, n, a)
    \/ ProbeFails(1)
    \/ ProbeSucceeds(1)
    \/ \E r \in FewResponses(AwaitedApi(1)) : ResponseWins(1, r)
    \/ DeadlineWins(1)
    \/ LateResponse(1)
    \/ TimerLate(1)
    \/ \E mode \in RejectionModes : TimerUnobserved(1, mode)
    \/ Tick

SpecRead == Init /\ [][NextRead]_vars

\* One suggestion, with every input.
NextSuggest ==
    \/ \E n \in {0 - 1, 0, 5} : ShouldSuggest(n)
    \/ \E graph \in Graphs : \E availableTools \in ToolLists :
            AnalyzePatternsAndSuggest(graph, availableTools)

SpecSuggest == Init /\ [][NextSuggest]_vars

\* From the evaluation of the module on.
NextModule == EvaluateStatement \/ Next

SpecModule == InitModule /\ [][NextModule]_vars

(***************************************************************************)
(* Vocabulary of the properties.                                           *)
(***************************************************************************)
Returned(c) == pc[c] = "returned"

\* The shape {content: [one text item], isError: true|false}.
IsToolResult(r) ==
    /\ r # None
    /\ Len(r.content) = 1
    /\ r.content[1].type = "text"
    /\ r.isError \in BOOLEAN

TextOf(c) == result[c].content[1].text

\* Whether segment x occurs in the message text of call c's result.
TextNames(c, x) ==
    /\ TextOf(c).fmt = "message"
    /\ \E i \in 1..Len(TextOf(c).segs) : TextOf(c).segs[i] = x

\* The requests of call c that went to the provider before its switch ran, and
\* the tool requests its switch issued.
ToolRequests(c) == {i \in 1..Len(sent[c]) : sent[c][i] # ProbeRequest}

\* Whether the provider answered call c's tool request before the timer fired.
Answered(c) == Returned(c) /\ resp[c].k \in {"ok", "error"}

\* Whether the timer settled call c's race.
TimedOut(c) == Returned(c) /\ resp[c].k \in {"pending", "discarded"}

\* Whether the tool's validation refuses the arguments of call c.
FailsValidation(c) ==
    /\ name[c] \in ToolNames
    /\ Switch(impl, name[c], args[c]).k = "throw"

TimeoutText == Message(<<"Error v", version, ": ", "Request timed out">>)

(***************************************************************************)
(* C1.  A call whose arguments fail the tool's validation returns its      *)
(* error result without any request having gone to the provider earlier in *)
(* that call, the probe of initializeStripe included.                      *)
(***************************************************************************)
C1_ValidationBeforeAnyRequest ==
    \A c \in CallIds :
        (impl = "zod" /\ Returned(c) /\ FailsValidation(c))
            => (result[c].isError /\ sent[c] = <<>>)

(***************************************************************************)
(* C2.  Every invocation that ends returns a result of the shape           *)
(* {content: [one text item], isError}, and on no path does a rejected     *)
(* promise of the handler go unhandled.                                    *)
(***************************************************************************)
C2_ShapedResultNoEscape ==
    /\ \A c \in CallIds : Returned(c) => IsToolResult(result[c])
    /\ unhandled = {}

(***************************************************************************)
(* C3.  No provider request of a call, the probe included, stays           *)
(* unanswered past the deadline with the call still waiting; a call ended  *)
(* by the deadline returns isError:true with the 'Request timed out' text. *)
(***************************************************************************)
UnansweredFor(c) ==
    IF pc[c] = "init" THEN waited[c]
    ELSE IF pc[c] = "racing" THEN Deadline - timerLeft[c]
    ELSE 0

C3_BoundedResponse ==
    \A c \in CallIds :
        /\ UnansweredFor(c) <= Deadline
        /\ TimedOut(c) => (result[c].isError /\ TextOf(c) = TimeoutText)

(***************************************************************************)
(* C4.  The first of the provider's answer and the deadline to settle      *)
(* decides the result of a dispatched call: the answer gives the result    *)
(* derived from it, the deadline gives the timeout failure.  The event     *)
(* that settles second changes neither the returned result nor any state   *)
(* of the process or of another call.                                      *)
(***************************************************************************)
RaceOutcome ==
    \A c \in CallIds :
        /\ Answered(c) =>
              (result[c] = Settled(impl, name[c], resp[c]) /\ TextOf(c) # TimeoutText)
        /\ TimedOut(c) => result[c] = ToolResult(TimeoutText, TRUE)

\* A step in which the loser of call c's race settles.
SecondEvent(c) ==
    /\ Returned(c)
    /\ observed[c]
    /\ \/ resp[c] = Pending /\ resp'[c] # Pending
       \/ timer[c] = "armed" /\ timer'[c] = "fired"

SecondEventHarmless ==
    \A c \in CallIds :
        SecondEvent(c) =>
            /\ result' = result
            /\ pc' = pc
            /\ proc' = proc
            /\ unhandled' = unhandled
            /\ sent' = sent
            /\ \A d \in CallIds \ {c} : resp'[d] = resp[d] /\ timer'[d] = timer[d]

C4_FirstToSettle == []RaceOutcome /\ [][SecondEventHarmless]_vars

\* One call answered in time whose timer fired later, and one call ended by
\* the deadline whose answer came later.
C4_Witness ==
    \E c, d \in CallIds :
        /\ Answered(c) /\ timer[c] = "fired"
        /\ TimedOut(d) /\ resp[d] = Discarded

(***************************************************************************)
(* C5.  A call whose tool name is not in the catalog issues no request to  *)
(* the provider client, and returns isError:true with a message that       *)
(* contains the name.                                                      *)
(***************************************************************************)
C5_UnknownToolNoProviderCall ==
    \A c \in CallIds :
        (impl = "zod" /\ pc[c] # "idle" /\ name[c] \notin ToolNames)
            => /\ sent[c] = <<>>
               /\ Returned(c) => (result[c].isError /\ TextNames(c, name[c]))

(***************************************************************************)
(* C6.  Every tool of the catalog has a handler branch: called with only   *)
(* its required arguments and answered by the provider before the deadline *)
(* with a well-formed payload, it returns isError:false and one text item  *)
(* holding the payload as JSON.  (part_000 reads item.price.unit_amount    *)
(* without a guard, so there a payload is well formed only with a price on *)
(* every item.)                                                            *)
(***************************************************************************)
RequiredKeys(n) ==
    IF n \in {"stripe_payment_methods", "stripe_invoice_history"} THEN {"customer"} ELSE {}

MinimallyValid(n, a) ==
    \A k \in ArgKeys :
        IF k \in RequiredKeys(n) THEN a[k].t = "string" /\ a[k].s # "" ELSE a[k] = Undef

WellFormed(n, body) ==
    \/ n = "stripe_get_balance"
    \/ /\ body.data.t = "array"
       /\ (impl = "manual" /\ n = "stripe_subscription_metrics")
              => ~MissingPrice(body.data.a)

HoldsPayload(text, n, body) ==
    /\ text.fmt = "json"
    /\ CASE n = "stripe_get_balance" -> text.val = body
         [] n = "stripe_subscription_metrics" ->
                text.val.active_subscriptions = IntNum(Len(body.data.a))
         [] OTHER -> text.val = body.data

SucceededMinimal(c) ==
    /\ Returned(c)
    /\ name[c] \in ToolNames
    /\ MinimallyValid(name[c], args[c])
    /\ resp[c].k = "ok"
    /\ WellFormed(name[c], resp[c].body)

C6_CatalogToolsSucceed ==
    \A c \in CallIds :
        SucceededMinimal(c) =>
            /\ IsToolResult(result[c])
            /\ result[c].isError = FALSE
            /\ HoldsPayload(TextOf(c), name[c], resp[c].body)

C6_Witness ==
    \E c \in CallIds :
        /\ SucceededMinimal(c)
        /\ name[c] = "stripe_invoice_history"
        /\ result[c].isError = FALSE

(***************************************************************************)
(* C7.  In both subscription_metrics handlers: with from_date and to_date  *)
(* both given, a from_date that is not strictly earlier than to_date is    *)
(* rejected with an error result and the subscriptions list call is not    *)
(* issued; a from_date strictly earlier than to_date is not rejected.      *)
(***************************************************************************)
IsDate(v) == v.t = "string" /\ v.s \in DateStrings

PastValidation(c) == pc[c] \in {"racing", "returned"}

C7_DateOrderEnforced ==
    \A c \in CallIds :
        ( /\ name[c] = "stripe_subscription_metrics"
          /\ PastValidation(c)
          /\ IsDate(args[c].from_date)
          /\ IsDate(args[c].to_date) )
        => IF DateMs(args[c].from_date.s) < DateMs(args[c].to_date.s)
           THEN ToolRequests(c) # {}
           ELSE Returned(c) /\ result[c].isError /\ ToolRequests(c) = {}

(***************************************************************************)
(* C8.  The validator of index.ts enforces the limit of each listing tool  *)
(* before dispatch: once the module has been evaluated the three limit     *)
(* schemas exist; stripe_list_customers and stripe_invoice_history reject  *)
(* a limit above 100 and accept 1..100, stripe_list_transactions rejects a *)
(* limit that is zero, negative or no integer and accepts a positive       *)
(* integer; a rejected call issues no listing request.                     *)
(***************************************************************************)
LimitSchemas == {"ListTransactionsSchema", "ListCustomersSchema", "GetInvoiceHistorySchema"}

\* Whether the statement that defines schema s has been evaluated.
Constructed(s) == \E i \in 1..stmt : ModuleStatements(impl)[i] = s

CappedTools == {"stripe_list_customers", "stripe_invoice_history"}

LimitMustFail(n, l) ==
    IF n \in CappedTools THEN l.num > 100 * l.den
    ELSE l.num <= 0 \/ l.den # 1

LimitMustPass(n, l) ==
    IF n \in CappedTools THEN l.num >= l.den /\ l.num <= 100 * l.den
    ELSE l.num > 0 /\ l.den = 1

\* The arguments other than limit are ones the tool takes.
OthersValid(n, a) ==
    /\ \A k \in {"starting_after", "ending_before", "email"} : a[k].t \in {"undefined", "string"}
    /\ n = "stripe_invoice_history" => a.customer.t = "string"

LimitEnforced(c) ==
    ( /\ name[c] \in CappedTools \cup {"stripe_list_transactions"}
      /\ PastValidation(c)
      /\ args[c].limit.t = "number" )
    => /\ LimitMustFail(name[c], args[c].limit)
            => (Returned(c) /\ result[c].isError /\ ToolRequests(c) = {})
       /\ (LimitMustPass(name[c], args[c].limit) /\ OthersValid(name[c], args[c]))
            => ToolRequests(c) # {}

C8_LimitBoundsEnforced ==
    (impl = "zod" /\ keySet /\ proc # "evaluating")
        => /\ \A s \in LimitSchemas : Constructed(s)
           /\ \A c \in CallIds : LimitEnforced(c)

(***************************************************************************)
(* C9.  A rate-limit failure of the provider gives isError:true with the   *)
(* rate-limit message, and the message carries the retry-after value the   *)
(* provider supplied, never a missing or placeholder value.                *)
(***************************************************************************)
RateLimited(c) == Answered(c) /\ resp[c].k = "error" /\ resp[c].error.type = "rate_limit"

C9_RetryAfterSurfaced ==
    \A c \in CallIds :
        RateLimited(c) =>
            /\ result[c].isError
            /\ TextOf(c).fmt = "message"
            /\ TextOf(c).segs[1] = "Rate limit exceeded. Retry after "
            /\ TextOf(c).segs[2] \notin {"undefined", "null", "NaN", ""}

(***************************************************************************)
(* C10.  For every page of subscriptions each subscription_metrics handler *)
(* returns the reference metrics: the number of subscriptions, the mrr     *)
(* (sum of unit_amount x quantity over all line items, a missing           *)
(* unit_amount read as 0 and a missing quantity as 1, divided by 100) and  *)
(* the average mrr / count, 0 for the empty page.                          *)
(***************************************************************************)
RefUnit(item) ==
    IF item.price = Undef THEN 0
    ELSE IF item.price.unit_amount = Undef THEN 0
    ELSE item.price.unit_amount.num

RefQuantity(item) == IF item.quantity = Undef THEN 1 ELSE item.quantity.num

RECURSIVE RefItems(_, _)
RefItems(items, i) ==
    IF i > Len(items) THEN 0
    ELSE RefUnit(items[i]) * RefQuantity(items[i]) + RefItems(items, i + 1)

RECURSIVE RefMinor(_, _)
RefMinor(subs, i) ==
    IF i > Len(subs) THEN 0 ELSE RefItems(subs[i], 1) + RefMinor(subs, i + 1)

RefMetrics(subs) ==
    [active_subscriptions |-> IntNum(Len(subs)),
     mrr |-> Frac(RefMinor(subs, 1), 100),
     average_subscription_value |->
        IF Len(subs) > 0 THEN Frac(RefMinor(subs, 1), 100 * Len(subs)) ELSE IntNum(0)]

GotPage(c) ==
    /\ Returned(c)
    /\ name[c] = "stripe_subscription_metrics"
    /\ resp[c].k = "ok"
    /\ resp[c].body.data.t = "array"

C10_MetricsMatchReference ==
    \A c \in CallIds :
        GotPage(c) =>
            result[c] = ToolResult(JSONStringify(RefMetrics(resp[c].body.data.a)), FALSE)

(***************************************************************************)
(* C11.  A failed probe of initializeStripe ends the process: the call     *)
(* whose probe failed has no result, and from then on no call, the ones in *)
(* flight included, runs a branch, issues a request or returns a result.   *)
(***************************************************************************)
ExitLeavesNoResult ==
    proc = "exited" => \E c \in CallIds : pc[c] = "init" /\ result[c] = None

ExitedFrozen ==
    proc = "exited" =>
        /\ proc' = "exited"
        /\ pc' = pc
        /\ sent' = sent
        /\ result' = result

C11_ProbeFailureIsFatal == []ExitLeavesNoResult /\ [][ExitedFrozen]_vars

\* The process ended by one call's probe while another call awaited its answer.
C11_Witness ==
    /\ proc = "exited"
    /\ \E c, d \in CallIds : pc[c] = "init" /\ pc[d] = "racing" /\ resp[d] = Pending

(***************************************************************************)
(* C12.  Over all the calls of one process the provider client is          *)
(* constructed and probed at most once: a call that follows a successful   *)
(* initialization, or that starts while another call initializes, sends no *)
(* probe of its own.                                                       *)
(***************************************************************************)
\* The calls that constructed a client and sent its probe.
Probing == {c \in CallIds : \E i \in 1..Len(sent[c]) : sent[c][i] = ProbeRequest}

C12_InitializedAtMostOnce == Cardinality(Probing) <= 1

(***************************************************************************)
(* C13.  No retry: an invocation that reaches its provider call issues     *)
(* exactly one data request, the probe not counted, whether the request    *)
(* succeeds, fails, is rate limited, returns a malformed payload or loses  *)
(* the race against the deadline; no invocation issues a second one.       *)
(***************************************************************************)
Dispatched(c) == pc[c] = "racing" \/ (Returned(c) /\ resp[c] # NoResponse)

C13_ExactlyOneDataCall ==
    \A c \in CallIds :
        /\ Cardinality(ToolRequests(c)) <= 1
        /\ Dispatched(c) => Cardinality(ToolRequests(c)) = 1

\* A rate-limited call that has returned, with its one request.
C13_Witness ==
    \E c \in CallIds :
        /\ RateLimited(c)
        /\ Cardinality(ToolRequests(c)) = 1

(***************************************************************************)
(* C14.  Reading stripe://dashboard never ends the process and never       *)
(* throws on a provider failure: a failed initialization, balance request  *)
(* or charges request gives an error-flagged text payload; on success the  *)
(* payload is the summary with the balance and one line per transaction,   *)
(* each amount being the minor-unit amount divided by 100.                 *)
(***************************************************************************)
\* The dashboard read is under way and no tool call is at its own probe.
ReadAlone ==
    /\ read.uri = DashboardUri
    /\ read.pc # "idle"
    /\ \A c \in CallIds : pc[c] # "init"

IsReadPayload(r) ==
    /\ r # Undef
    /\ Len(r.contents) = 1
    /\ r.contents[1].type = "text"

\* The reference summary of a balance and a listing.
RefSummary(balance, charges) ==
    [fmt |-> "summary",
     balance |-> IF Len(balance.available.a) > 0
                 THEN Frac(balance.available.a[1].amount.num, 100) ELSE IntNum(0),
     currency |-> IF Len(balance.available.a) > 0
                  THEN balance.available.a[1].currency ELSE "",
     lines |-> [i \in 1..Len(charges) |->
                  [amount |-> Frac(charges[i].amount.num, 100),
                   currency |-> charges[i].currency,
                   date |-> charges[i].created]]]

ReadSucceeded ==
    /\ read.pc = "returned"
    /\ Len(read.sent) = 3
    /\ read.result # Undef
    /\ ~read.result.isError

C14_DashboardReadNeverFatal ==
    ReadAlone =>
        /\ proc # "exited"
        /\ read.pc # "thrown"
        /\ read.pc = "returned" => IsReadPayload(read.result)
        /\ ReadSucceeded =>
              \E charges \in {<<>>} \cup {b.data.a : b \in {x \in ReadCharges : x.data # Undef}} :
                  read.result.contents[1].text = RefSummary(read.balance, charges)

(***************************************************************************)
(* C15.  stripe_get_balance takes no arguments: a call whose mapping holds *)
(* any key is rejected with a validation error result and the balance      *)
(* request is not issued; the empty mapping is accepted.                   *)
(***************************************************************************)
C15_BalanceTakesNoArguments ==
    \A c \in CallIds :
        (impl = "zod" /\ name[c] = "stripe_get_balance" /\ PastValidation(c))
            => IF args[c] = NoArgs
               THEN ToolRequests(c) # {}
               ELSE Returned(c) /\ result[c].isError /\ ToolRequests(c) = {}

(***************************************************************************)
(* C16.  stripe_payment_methods requires a non-empty customer string: a    *)
(* call whose customer is missing, is no string or is the empty string is  *)
(* rejected with a validation error result and the payment-methods list    *)
(* call is not issued.                                                     *)
(***************************************************************************)
NonEmptyString(v) == v.t = "string" /\ v.s # ""

C16_CustomerRequired ==
    \A c \in CallIds :
        ( /\ impl = "zod"
          /\ name[c] = "stripe_payment_methods"
          /\ PastValidation(c)
          /\ ~NonEmptyString(args[c].customer) )
        => Returned(c) /\ result[c].isError /\ ToolRequests(c) = {}

(***************************************************************************)
(* C17.  The error result of a call whose arguments fail validation names  *)
(* each offending field: the fields named in its text are exactly the      *)
(* fields that violated the schema; the text is never one without field    *)
(* information.                                                            *)
(***************************************************************************)
\* The fields, or the object itself, on which the parse of call c raised an issue.
Offending(c) == Switch(impl, name[c], args[c]).error.issues

NamedIn(c) == {f \in ArgKeys \cup {"(root)"} : TextNames(c, f)}

C17_OffendingFieldsNamed ==
    \A c \in CallIds :
        (impl = "zod" /\ Returned(c) /\ FailsValidation(c))
            => /\ result[c].isError
               /\ NamedIn(c) = Offending(c)

(***************************************************************************)
(* C18.  Concurrent calls are independent: the result a call returns is    *)
(* determined by its own tool name, arguments and provider answers, and a  *)
(* call that awaits the answer to its own request is not cut off by an     *)
(* event of another call (a failed probe, a deadline, a failed             *)
(* validation).                                                            *)
(***************************************************************************)
\* The result of call c as its own inputs determine it.
OwnOutcome(c) ==
    LET step == Switch(impl, name[c], args[c])
    IN  IF step.k = "throw" THEN Catch(impl, step.error)
        ELSE IF Answered(c) THEN Settled(impl, name[c], resp[c])
        ELSE Catch(impl, TimeoutError)

C18_CallsIndependent ==
    \A c \in CallIds :
        /\ Returned(c) => result[c] = OwnOutcome(c)
        /\ pc[c] = "racing" => proc = "serving"

(***************************************************************************)
(* C19.  An invocation of index.ts moves only forward through Received,    *)
(* Validated, Dispatched and Completed or Failed: before the provider call *)
(* it has no request and no result, it is dispatched only after its        *)
(* arguments were validated and then has one request and no result, and    *)
(* once it has its result it has exactly that one.  As a step property:    *)
(* no position is left backwards and a returned call changes nothing.      *)
(***************************************************************************)
Rank(p) ==
    CASE p = "idle" -> 0 [] p = "init" -> 1 [] p = "racing" -> 2 [] p = "returned" -> 3

\* No step takes a call backwards, and a call that returned keeps its
\* position, its requests and its result.
Forward ==
    \A c \in CallIds :
        /\ Rank(pc'[c]) >= Rank(pc[c])
        /\ Returned(c) => (pc'[c] = pc[c] /\ sent'[c] = sent[c] /\ result'[c] = result[c])

ForwardOnly == [][Forward]_vars

C19_ForwardStateMachine ==
    \A c \in CallIds :
        impl = "zod" =>
            /\ pc[c] \in {"idle", "init"} => (result[c] = None /\ ToolRequests(c) = {})
            /\ pc[c] = "racing" => result[c] = None
            /\ Dispatched(c) =>
                  (Validates(impl, name[c]) /\ Cardinality(ToolRequests(c)) = 1)
            /\ Returned(c) => IsToolResult(result[c])

(***************************************************************************)
(* C20.  The catch block of index.ts reports each kind of failure with the *)
(* message of that kind and isError:true: a validation failure 'Invalid    *)
(* arguments', a rate limit 'Rate limit exceeded', any other provider      *)
(* error a text with the provider's message and error code, a deadline     *)
(* 'Request timed out', an unknown name 'Unknown tool'; no call is         *)
(* reported with the message of a kind that is not its own.                *)
(***************************************************************************)
FailureKind(c) ==
    CASE name[c] \notin ToolNames -> "unknown"
      [] FailsValidation(c) -> "validation"
      [] TimedOut(c) -> "timeout"
      [] RateLimited(c) -> "rate_limit"
      [] Answered(c) /\ resp[c].k = "error" -> "provider"
      [] OTHER -> "none"

MessageKind(text) ==
    IF text.fmt # "message" THEN "none"
    ELSE CASE text.segs[1] = "Invalid arguments: " -> "validation"
           [] text.segs[1] = "Rate limit exceeded. Retry after " -> "rate_limit"
           [] text.segs[1] = "Stripe API Error v" -> "provider"
           [] text = TimeoutText -> "timeout"
           [] Len(text.segs) > 3 /\ text.segs[4] = "Unknown tool: " -> "unknown"
           [] OTHER -> "none"

\* Whether the pieces of part occur in text, in order and next to each other.
Contains(text, part) ==
    \E i \in 0..(Len(text.segs) - Len(part)) :
        \A j \in 1..Len(part) : text.segs[i + j] = part[j]

CarriesProviderError(text, error) ==
    /\ Contains(text, error.message)
    /\ error.code # Undef => Contains(text, <<error.code.s>>)

C20_ErrorsClassified ==
    \A c \in CallIds :
        (impl = "zod" /\ Returned(c)) =>
            /\ MessageKind(TextOf(c)) = FailureKind(c)
            /\ FailureKind(c) # "none" => result[c].isError
            /\ FailureKind(c) = "unknown" => TextNames(c, name[c])
            /\ FailureKind(c) = "provider" => CarriesProviderError(TextOf(c), resp[c].error)

\* A provider error with a code that is no rate limit, reported as such.
C20_Witness ==
    \E c \in CallIds :
        /\ impl = "zod"
        /\ FailureKind(c) = "provider"
        /\ resp[c].error.code # Undef
        /\ MessageKind(TextOf(c)) = "provider"

(***************************************************************************)
(* C21.  For each of the five listing tools, a provider answer that        *)
(* settles successfully but holds no data array (data missing, or no       *)
(* array) gives isError:true with the message 'Invalid response from       *)
(* Stripe API' of that tool; never isError:false, and the call returns.    *)
(***************************************************************************)
ListingTools == ToolNames \ {"stripe_get_balance"}

\* Call c was answered in time with a payload that has no data array.
AnsweredMalformed(c) ==
    /\ pc[c] \in {"racing", "returned"}
    /\ name[c] \in ListingTools
    /\ resp[c].k = "ok"
    /\ (resp[c].body.data = Undef \/ resp[c].body.data.t # "array")

C21_MalformedPayloadIsError ==
    \A c \in CallIds :
        AnsweredMalformed(c) =>
            /\ Returned(c)
            /\ IsToolResult(result[c])
            /\ result[c].isError
            /\ Contains(TextOf(c), <<"Invalid response from Stripe API (",
                                     ListingLabel(name[c]), ")">>)

\* A page of subscriptions whose data is a string, refused.
C21_Witness ==
    \E c \in CallIds :
        /\ AnsweredMalformed(c)
        /\ name[c] = "stripe_subscription_metrics"
        /\ resp[c].body.data # Undef
        /\ result[c].isError

(***************************************************************************)
(* C22.  For stripe_list_transactions, stripe_list_customers and           *)
(* stripe_invoice_history the parameters of the provider request are the   *)
(* validated arguments: limit, starting_after, ending_before (and email,   *)
(* customer where the tool has them) arrive with the caller's values, an   *)
(* absent field stays absent, and no field is added or rewritten.          *)
(***************************************************************************)
ForwardingTools ==
    {"stripe_list_transactions", "stripe_list_customers", "stripe_invoice_history"}

\* The fields each forwarding tool takes.
FieldsOf(n) ==
    {"limit", "starting_after", "ending_before"}
        \cup (IF n = "stripe_list_customers" THEN {"email"} ELSE {})
        \cup (IF n = "stripe_invoice_history" THEN {"customer"} ELSE {})

ApiOf(n) ==
    CASE n = "stripe_list_transactions" -> "charges.list"
      [] n = "stripe_list_customers" -> "customers.list"
      [] n = "stripe_invoice_history" -> "invoices.list"

\* The tool request of a dispatched call.
ToolRequest(c) == sent[c][Len(sent[c])]

C22_ArgumentsForwarded ==
    \A c \in CallIds :
        (name[c] \in ForwardingTools /\ Dispatched(c)) =>
            /\ ToolRequest(c).api = ApiOf(name[c])
            /\ \A k \in FieldsOf(name[c]) : ToolRequest(c).params[k] = args[c][k]
            /\ impl = "zod" =>
                  \A k \in ArgKeys \ FieldsOf(name[c]) : ToolRequest(c).params[k] = Undef

\* A customers listing sent with a cursor and an email and without a limit.
C22_Witness ==
    \E c \in CallIds :
        /\ name[c] = "stripe_list_customers"
        /\ Dispatched(c)
        /\ args[c].starting_after = Str("obj_1")
        /\ args[c].email # Undef
        /\ args[c].limit = Undef
        /\ ToolRequest(c).params.starting_after = Str("obj_1")

(***************************************************************************)
(* C23.  A call of index.ts returns isError:false only if its tool name is *)
(* in the catalog, its arguments passed validation (the tool's schema, no  *)
(* argument at all for stripe_get_balance, a non-empty customer for        *)
(* stripe_payment_methods), exactly one data request was issued for it and *)
(* that request was answered successfully before the deadline; every other *)
(* call that returns has isError:true.                                     *)
(***************************************************************************)
ArgumentsValid(c) ==
    /\ ~FailsValidation(c)
    /\ name[c] = "stripe_get_balance" => args[c] = NoArgs
    /\ name[c] = "stripe_payment_methods" => NonEmptyString(args[c].customer)

SuccessJustified(c) ==
    /\ name[c] \in ToolNames
    /\ ArgumentsValid(c)
    /\ Cardinality(ToolRequests(c)) = 1
    /\ resp[c].k = "ok"

C23_SuccessOnlyWhenJustified ==
    \A c \in CallIds :
        (impl = "zod" /\ Returned(c)) =>
            /\ IsToolResult(result[c])
            /\ ~SuccessJustified(c) => result[c].isError

(***************************************************************************)
(* C24.  The deadline timer of a call that has returned is harmless: its   *)
(* later firing raises no unhandled rejection and does not end the         *)
(* process, also for a call that failed validation or named an unknown     *)
(* tool before any race, and for a call whose answer won the race.         *)
(***************************************************************************)
\* The timer of call c fired after the call had returned by other means.
FiredAfterReturn(c) ==
    /\ Returned(c)
    /\ timer[c] = "fired"
    /\ ~TimedOut(c)

C24_LateTimerHarmless ==
    \A c \in CallIds :
        FiredAfterReturn(c) => (c \notin unhandled /\ proc # "crashed")

(***************************************************************************)
(* C25.  The deadline covers the whole call: the time spent in the         *)
(* initialization and its probe counts against it, so the time from the    *)
(* request to the result never exceeds the deadline.                       *)
(***************************************************************************)
C25_DeadlineCoversWholeCall ==
    \A c \in CallIds : Returned(c) => waited[c] <= Deadline

\* ---------------------------------------------------------------------------
\* C26

\* The i-th character of a string.
CharAt(s, i) == SubSeq(s, i, i)

\* Two characters that are the same letter, whatever their case.
SameLetter(a, b) ==
    \/ a = b
    \/ \E i \in 1..Len(UpperCaseLetters) :
          {a, b} = {CharAt(UpperCaseLetters, i), CharAt(LowerCaseLetters, i)}

\* The keyword occurs in the type at some position, letter case ignored.
ContainedIgnoringCase(keyword, type) ==
    \E i \in 0..(Len(type) - Len(keyword)) :
        \A k \in 1..Len(keyword) : SameLetter(CharAt(type, i + k), CharAt(keyword, k))

\* The category has an entity keyword contained in an entity type of the graph,
\* or a relation keyword contained in a relation type of the graph.
CategoryMatchesGraph(category, graph) ==
    \/ \E i \in DOMAIN toolMappings[category].entityTypes : \E j \in DOMAIN graph.entities :
          ContainedIgnoringCase(toolMappings[category].entityTypes[i],
                                graph.entities[j].entityType)
    \/ \E i \in DOMAIN toolMappings[category].relationTypes : \E j \in DOMAIN graph.relations :
          ContainedIgnoringCase(toolMappings[category].relationTypes[i],
                                graph.relations[j].relationType)

\* The tool is listed under a category that matches the graph.
ToolWanted(tool, graph) ==
    \E category \in DOMAIN toolMappings :
        /\ \E i \in DOMAIN toolMappings[category].tools :
              toolMappings[category].tools[i] = tool.name
        /\ CategoryMatchesGraph(category, graph)

\* The tools of the list that are wanted for the graph, in the order of the list.
WantedTools(availableTools, graph) ==
    LET Wanted(tool) == ToolWanted(tool, graph)
    IN  SelectSeq(availableTools, Wanted)

\* C26: analyzePatternsAndSuggest returns as suggestedTools the tools of
\* availableTools, in their original order, whose name is listed under a
\* category with an entity keyword contained (case ignored) in an entity type of
\* the graph or a relation keyword contained in a relation type of the graph;
\* an empty graph, or a graph no category matches, gives no tool; and
\* shouldSuggest answers true for every interaction count.
C26_SuggestsToolsOfMatchedCategories ==
    /\ suggest.pc # "idle" => suggest.should = TRUE
    /\ suggest.pc = "returned" =>
          /\ suggest.result.suggestedTools
                = WantedTools(suggest.availableTools, suggest.graph)
          /\ (suggest.graph.entities = <<>> /\ suggest.graph.relations = <<>>)
                => suggest.result.suggestedTools = <<>>
          /\ (\A category \in DOMAIN toolMappings :
                    ~CategoryMatchesGraph(category, suggest.graph))
                => suggest.result.suggestedTools = <<>>

\* A graph whose types match only through letter case or through a relation
\* type gives some of the available tools, twice the same one among them, and
\* leaves out a tool no matched category lists.
C26_Witness ==
    /\ suggest.pc = "returned"
    /\ suggest.should
    /\ Len(suggest.graph.entities) = 1
    /\ suggest.graph.entities[1].entityType = "File"
    /\ Len(suggest.graph.relations) = 1
    /\ suggest.graph.relations[1].relationType = "search_in"
    /\ suggest.result.suggestedTools
          = << MCPTool("server-filesystem"), MCPTool("server-filesystem") >>
    /\ Len(suggest.availableTools) > Len(suggest.result.suggestedTools)

====
